---- MODULE Spec2Model ----
(***************************************************************************)
(* Onboarding backend (src/backend/main.py): request handlers over a       *)
(* document store (admins/{uid}/repositories, admins/{uid}/                *)
(* onboarding_sessions, users/{uid}), an identity service holding custom   *)
(* claims per uid, and an SMTP relay.  Each handler is one atomic action;  *)
(* employee_signup and create_onboarding_session are also given call by    *)
(* call, for the runs where requests overlap.  The store and the identity  *)
(* service are taken to answer every call; the mail relay may fail at each *)
(* step of its handshake.                                                  *)
(***************************************************************************)
EXTENDS Integers, Sequences, FiniteSets, TLC

VARIABLES adminDocs, repos, sessions, users, claims, outbox, issued, clock, response,
          inflight

vars == <<adminDocs, repos, sessions, users, claims, outbox, issued, clock, response,
          inflight>>

(* ------------------------------ bounds --------------------------------- *)

\* number of repositories ever created
MaxRepos == 2

\* number of onboarding sessions ever created
MaxSessions == 2

\* number of readings of datetime.now()
MaxClock == 4

\* longest repositories list of a CreateOnboardingRequest
MaxRefs == 1

\* number of requests followed call by call
MaxRequests == 2

\* number of readings of datetime.now() where requests go call by call
MaxStepClock == 5

(* ------------------------------ inputs --------------------------------- *)

AdminSeq == <<"a1", "a2">>

Admins == {AdminSeq[i] : i \in 1..Len(AdminSeq)}

Uids == {"u1", "a1"}

Emails == {"alice@x.com", "Alice@x.com"}

Roles == {"engineer"}

UserNames == {"Alice"}

RepoNames == {"web"}

Urls == {"git://web"}

Descriptions == {"front end"}

Languages == {"python"}

Instructions == {"read the docs"}

ProgressValues == {-1, 0, 45, 100, 101}

\* the values uuid4 hands out, in the order the store sorts document ids
RepoIdSeq == [i \in 1..MaxRepos |-> "repo-" \o ToString(i)]

SessionIdSeq == [i \in 1..MaxSessions |-> "sess-" \o ToString(i)]

RepoIds == {RepoIdSeq[i] : i \in 1..MaxRepos}

SessionIds == {SessionIdSeq[i] : i \in 1..MaxSessions}

\* a well-formed id that uuid4 never hands out
Unissued == "sess-0"

\* the ids and tokens a client may put in a path or a payload
RepoKeys == RepoIds

SessionKeys == SessionIds \cup {Unissued}

\* strings a client may put in a repositories list
RepoRefs == RepoIds \cup RepoNames

RECURSIVE SeqsUpTo(_, _)
SeqsUpTo(S, n) ==
  IF n = 0 THEN {<<>>}
  ELSE LET shorter == SeqsUpTo(S, n - 1)
       IN  shorter \cup {Append(s, x) : s \in {t \in shorter : Len(t) = n - 1}, x \in S}

RefLists == SeqsUpTo(RepoRefs, MaxRefs)

(* --------------------------- representation ---------------------------- *)

\* Python None / a field the document does not have
None == "null"

\* a timestamp field that is None or absent; readings of the clock are >= 1
NoTime == 0

Put(f, k, v) == [x \in DOMAIN f \cup {k} |-> IF x = k THEN v ELSE f[x]]

Remove(f, k) == [x \in DOMAIN f \ {k} |-> f[x]]

\* a collection streams its documents ordered by document id
StreamIds(idSeq, S) == SelectSeq(idSeq, LAMBDA id : id \in S)

\* datetime -> POSIX timestamp
Timestamp(t) == [epoch |-> t]

(* ------------------------------ responses ------------------------------ *)

HTTPException(code, text) == [status_code |-> code, detail |-> text]

\* no exception was raised
NoException == HTTPException(0, "null")

\* except Exception as e: raise HTTPException(status_code=500, detail=str(e))
CatchAll(e) == HTTPException(500, e.detail)

\* the response of a handler whose body raised e inside its try block
Raised(op, e) ==
  [op |-> op, status |-> CatchAll(e).status_code,
   detail |-> CatchAll(e).detail, body |-> None]

Returned(op, body) ==
  [op |-> op, status |-> 200, detail |-> None, body |-> body]

(* ----------------------------- repositories ---------------------------- *)

RepositoryDoc(id, name, url, description, language, now, adminUid) ==
  [id |-> id, name |-> name, url |-> url, description |-> description,
   language |-> language, lastSync |-> now, status |-> "syncing",
   adminUid |-> adminUid]

\* a streamed repository document as the listing returns it
ListedRepository(id, doc) ==
  [doc EXCEPT !.id = id, !.lastSync = Timestamp(doc.lastSync)]

RepositoryListing(admin_uid) ==
  LET ids == StreamIds(RepoIdSeq, DOMAIN repos[admin_uid])
  IN  [i \in 1..Len(ids) |-> ListedRepository(ids[i], repos[admin_uid][ids[i]])]

get_repositories(admin_uid) ==
  /\ response' = Returned("get_repositories", RepositoryListing(admin_uid))
  /\ UNCHANGED <<inflight, adminDocs, repos, sessions, users, claims, outbox, issued, clock>>

create_repository(name, url, description, language, adminUid) ==
  /\ clock < MaxClock
  /\ \E repo_id \in RepoIds \ issued :
       LET now == clock + 1
           repository == RepositoryDoc(repo_id, name, url, description, language, now, adminUid)
       IN  /\ repos' = [repos EXCEPT ![adminUid] = Put(@, repo_id, repository)]
           /\ issued' = issued \cup {repo_id}
           /\ clock' = now
           /\ response' = Returned("create_repository", repository)
  /\ UNCHANGED <<inflight, adminDocs, sessions, users, claims, outbox>>

\* the admin's repositories after repo_ref.delete()
DeleteDoc(docs, id) == Remove(docs, id)

delete_repository(admin_uid, repo_id) ==
  /\ IF repo_id \notin DOMAIN repos[admin_uid]
     THEN /\ response' = Raised("delete_repository",
                                HTTPException(404, "Repository not found"))
          /\ UNCHANGED repos
     ELSE /\ repos' = [repos EXCEPT ![admin_uid] = DeleteDoc(@, repo_id)]
          /\ response' = Returned("delete_repository", "Repository deleted successfully")
  /\ UNCHANGED <<inflight, adminDocs, sessions, users, claims, outbox, issued, clock>>

(* ------------------------------ mail relay ----------------------------- *)

\* the SMTP step that raised, or "sent" when none did
SmtpOutcomes == {"sent", "connect", "starttls", "login", "sendmail", "quit"}

\* the relay accepted the message: server.sendmail returned
Relayed(outcome) == outcome \in {"sent", "quit"}

\* send_onboarding_email without its except clause
send_onboarding_email_Unguarded(outcome) ==
  [returned |-> outcome = "sent",
   raised |-> IF outcome = "sent" THEN NoException ELSE HTTPException(0, outcome)]

\* what the call gives its caller: the boolean it returns and the exception
\* that leaves it; the except clause turns every exception into False
send_onboarding_email(outcome) ==
  [returned |-> outcome = "sent", raised |-> NoException]

Message(to_email, token, role) == [to |-> to_email, token |-> token, role |-> role]

(* --------------------------- identity and users ------------------------ *)

UserDoc(name, email, role, job_role, invitedBy, onboardingSessionId, signupDate) ==
  [name |-> name, email |-> email, role |-> role, job_role |-> job_role,
   invitedBy |-> invitedBy, onboardingSessionId |-> onboardingSessionId,
   signupDate |-> signupDate]

CustomClaims(role, job_role) == [role |-> role, job_role |-> job_role]

assign_role(uid, name, email, role) ==
  /\ claims' = [claims EXCEPT ![uid] = CustomClaims(role, None)]
  /\ users' = Put(users, uid, UserDoc(name, email, role, None, None, None, NoTime))
  /\ response' = Returned("assign_role", "Role assigned")
  /\ UNCHANGED <<inflight, adminDocs, repos, sessions, outbox, issued, clock>>

(* ------------------------- onboarding sessions ------------------------- *)

SessionDoc(id, email, role, repositories, now, customInstructions, adminUid) ==
  [id |-> id, email |-> email, role |-> role, repositories |-> repositories,
   status |-> "pending", createdAt |-> now, completedAt |-> NoTime,
   progress |-> 0, customInstructions |-> customInstructions,
   adminUid |-> adminUid, startedAt |-> NoTime, employeeUid |-> None]

\* admin_repo_names = [doc.to_dict().get("name") for doc in repos_docs]
admin_repo_names(adminUid) == {repos[adminUid][id].name : id \in DOMAIN repos[adminUid]}

\* indexes of the entries of the request's list the validation loop rejects
Rejected(repositories, adminUid) ==
  {i \in 1..Len(repositories) : repositories[i] \notin admin_repo_names(adminUid)}

FirstRejected(repositories, adminUid) ==
  LET bad == Rejected(repositories, adminUid)
  IN  repositories[CHOOSE i \in bad : \A j \in bad : i <= j]

\* a streamed session document as the listing returns it
ListedSession(id, doc) ==
  [doc EXCEPT !.id = id, !.createdAt = Timestamp(doc.createdAt),
              !.completedAt = IF doc.completedAt # NoTime
                              THEN Timestamp(doc.completedAt) ELSE NoTime]

\* SessionListing streaming the sessions of every admin
SessionListing_AllAdmins(admin_uid) ==
  LET ids == StreamIds(SessionIdSeq, UNION {DOMAIN sessions[a] : a \in Admins})
      owner == [id \in UNION {DOMAIN sessions[a] : a \in Admins} |->
                  CHOOSE a \in Admins : id \in DOMAIN sessions[a]]
  IN  [i \in 1..Len(ids) |-> ListedSession(ids[i], sessions[owner[ids[i]]][ids[i]])]

\* for doc in sessions_ref.stream(): ... sessions.append(session_data)
SessionListing(admin_uid) ==
  LET ids == StreamIds(SessionIdSeq, DOMAIN sessions[admin_uid])
  IN  [i \in 1..Len(ids) |-> ListedSession(ids[i], sessions[admin_uid][ids[i]])]

get_onboarding_sessions(admin_uid) ==
  /\ response' = Returned("get_onboarding_sessions", SessionListing(admin_uid))
  /\ UNCHANGED <<inflight, adminDocs, repos, sessions, users, claims, outbox, issued, clock>>

\* the session is written before the mail is tried; smtp is what the relay
\* does with this message
create_onboarding_session(email, role, repositories, customInstructions, adminUid) ==
  /\ IF Rejected(repositories, adminUid) # {}
     THEN /\ response' = Raised("create_onboarding_session",
                           HTTPException(400, "Repository '"
                              \o FirstRejected(repositories, adminUid) \o "' not found"))
          /\ UNCHANGED <<sessions, outbox, issued, clock>>
     ELSE /\ clock < MaxClock
          /\ \E session_id \in SessionIds \ issued, smtp \in SmtpOutcomes :
               LET now == clock + 1
                   session == SessionDoc(session_id, email, role, repositories, now,
                                         customInstructions, adminUid)
                   mail == send_onboarding_email(smtp)
               IN  /\ sessions' = [sessions EXCEPT ![adminUid] = Put(@, session_id, session)]
                   /\ issued' = issued \cup {session_id}
                   /\ clock' = now
                   /\ outbox' = IF Relayed(smtp)
                                THEN outbox \cup {Message(email, session_id, role)}
                                ELSE outbox
                   /\ response' = IF mail.raised # NoException
                                  THEN Raised("create_onboarding_session", mail.raised)
                                  ELSE Returned("create_onboarding_session", session)
  /\ UNCHANGED <<inflight, adminDocs, repos, users, claims>>

get_onboarding_session(admin_uid, session_id) ==
  /\ IF session_id \notin DOMAIN sessions[admin_uid]
     THEN response' = Raised("get_onboarding_session",
                             HTTPException(404, "Onboarding session not found"))
     ELSE response' = Returned("get_onboarding_session",
                               [sessions[admin_uid][session_id] EXCEPT !.id = session_id])
  /\ UNCHANGED <<inflight, adminDocs, repos, sessions, users, claims, outbox, issued, clock>>

\* ProgressUpdate with the completion test written progress > 100
ProgressUpdate_Above100(doc, progress, now) ==
  IF progress > 100
  THEN [doc EXCEPT !.progress = progress, !.status = "completed", !.completedAt = now]
  ELSE IF progress > 0
       THEN [doc EXCEPT !.progress = progress, !.status = "in_progress"]
       ELSE [doc EXCEPT !.progress = progress]

\* the stored document after session_ref.update(update_data)
ProgressUpdate(doc, progress, now) ==
  IF progress >= 100
  THEN [doc EXCEPT !.progress = progress, !.status = "completed", !.completedAt = now]
  ELSE IF progress > 0
       THEN [doc EXCEPT !.progress = progress, !.status = "in_progress"]
       ELSE [doc EXCEPT !.progress = progress]

update_onboarding_progress(admin_uid, session_id, progress) ==
  /\ IF session_id \notin DOMAIN sessions[admin_uid]
     THEN /\ response' = Raised("update_onboarding_progress",
                                HTTPException(404, "Onboarding session not found"))
          /\ UNCHANGED <<sessions, clock>>
     ELSE /\ progress >= 100 => clock < MaxClock
          /\ LET now == clock + 1
                 updated == ProgressUpdate(sessions[admin_uid][session_id], progress, now)
             IN  /\ sessions' = [sessions EXCEPT ![admin_uid][session_id] = updated]
                 /\ clock' = IF progress >= 100 THEN now ELSE clock
                 /\ response' = Returned("update_onboarding_progress",
                                         [updated EXCEPT !.id = session_id])
  /\ UNCHANGED <<inflight, adminDocs, repos, users, claims, outbox, issued>>

delete_onboarding_session(admin_uid, session_id) ==
  /\ IF session_id \notin DOMAIN sessions[admin_uid]
     THEN /\ response' = Raised("delete_onboarding_session",
                                HTTPException(404, "Onboarding session not found"))
          /\ UNCHANGED sessions
     ELSE /\ sessions' = [sessions EXCEPT ![admin_uid] = DeleteDoc(@, session_id)]
          /\ response' = Returned("delete_onboarding_session",
                                  "Onboarding session deleted successfully")
  /\ UNCHANGED <<inflight, adminDocs, repos, users, claims, outbox, issued, clock>>

(* ---------------------------- employee flow ---------------------------- *)

\* db.collection("admins").stream(): the admin documents that exist, by id
AdminStream == SelectSeq(AdminSeq, LAMBDA a : a \in adminDocs)

\* the loop over the admin documents for a session keyed by the token;
\* admin_uid is the loop variable as the loop leaves it
ScanForToken(token) ==
  LET hits == {i \in 1..Len(AdminStream) : token \in DOMAIN sessions[AdminStream[i]]}
  IN  IF hits # {}
      THEN LET first == CHOOSE i \in hits : \A j \in hits : i <= j
           IN  [admin_uid |-> AdminStream[first],
                session_data |-> sessions[AdminStream[first]][token], found |-> TRUE]
      ELSE [admin_uid |-> IF Len(AdminStream) = 0 THEN None
                          ELSE AdminStream[Len(AdminStream)],
            session_data |-> None, found |-> FALSE]

\* what reading users/{admin_uid} does: it answers, or it raises
AdminReads == {"read", "failed"}

\* the result dict, with the admin's name and email when users/{admin_uid}
\* was read and exists; a failed read is logged and leaves them out
EmployeeView(token, scan, admin_read) ==
  [id |-> token, email |-> scan.session_data.email, role |-> scan.session_data.role,
   repositories |-> scan.session_data.repositories,
   customInstructions |-> scan.session_data.customInstructions,
   adminUid |-> scan.admin_uid,
   adminName |-> IF admin_read = "read" /\ scan.admin_uid \in DOMAIN users
                 THEN users[scan.admin_uid].name ELSE None,
   adminEmail |-> IF admin_read = "read" /\ scan.admin_uid \in DOMAIN users
                  THEN users[scan.admin_uid].email ELSE None]

get_employee_onboarding_session(token) ==
  LET scan == ScanForToken(token)
      op == "get_employee_onboarding_session"
  IN  /\ IF ~scan.found
         THEN response' = Raised(op, HTTPException(404, "Invalid onboarding token"))
         ELSE IF scan.session_data.status # "pending"
              THEN response' = Raised(op,
                             HTTPException(400, "Onboarding session is no longer valid"))
              ELSE \E admin_read \in AdminReads :
                     response' = Returned(op, EmployeeView(token, scan, admin_read))
      /\ UNCHANGED <<inflight, adminDocs, repos, sessions, users, claims, outbox, issued, clock>>

\* str.lower() on the addresses of the model
Lower(email) == IF email = "Alice@x.com" THEN "alice@x.com" ELSE email

\* SignupRefusal without the status check
SignupRefusal_AnyStatus(scan, email) ==
  IF ~scan.found
  THEN HTTPException(404, "Invalid onboarding token")
  ELSE IF scan.session_data.email # email
       THEN HTTPException(400, "Email does not match invitation")
       ELSE NoException

\* SignupRefusal comparing the addresses without regard to case
SignupRefusal_CaseFolded(scan, email) ==
  IF ~scan.found
  THEN HTTPException(404, "Invalid onboarding token")
  ELSE IF Lower(scan.session_data.email) # Lower(email)
       THEN HTTPException(400, "Email does not match invitation")
       ELSE IF scan.session_data.status # "pending"
            THEN HTTPException(400, "Onboarding session is no longer valid")
            ELSE NoException

\* the checks before the signup proceeds: the exception they raise, if any
SignupRefusal(scan, email) ==
  IF ~scan.found
  THEN HTTPException(404, "Invalid onboarding token")
  ELSE IF scan.session_data.email # email
       THEN HTTPException(400, "Email does not match invitation")
       ELSE IF scan.session_data.status # "pending"
            THEN HTTPException(400, "Onboarding session is no longer valid")
            ELSE NoException

\* SignupClaims giving the invited role as the role, as complete_onboarding does
SignupClaims_InvitedRole(role) == [role |-> role, job_role |-> None]

\* auth.set_custom_user_claims(data.uid, {...})
SignupClaims(role) == CustomClaims("employee", role)

\* db.collection("users").document(data.uid).set({...})
SignupUserDoc(name, email, role, admin_uid, token, now) ==
  UserDoc(name, email, "employee", role, admin_uid, token, now)

\* session_ref.update({...})
SignupSessionUpdate(doc, uid, now) ==
  [doc EXCEPT !.status = "in_progress", !.startedAt = now, !.employeeUid = uid]

employee_signup(uid, name, email, onboarding_token) ==
  LET scan == ScanForToken(onboarding_token)
      refusal == SignupRefusal(scan, email)
  IN  IF refusal # NoException
      THEN /\ response' = Raised("employee_signup", refusal)
           /\ UNCHANGED <<inflight, adminDocs, repos, sessions, users, claims, outbox, issued, clock>>
      ELSE /\ clock + 2 <= MaxClock
           /\ LET role == scan.session_data.role
                  signupDate == clock + 1
                  startedAt == clock + 2
              IN  /\ claims' = [claims EXCEPT ![uid] = SignupClaims(role)]
                  /\ users' = Put(users, uid,
                                  SignupUserDoc(name, email, role, scan.admin_uid,
                                                onboarding_token, signupDate))
                  /\ sessions' = [sessions EXCEPT ![scan.admin_uid][onboarding_token] =
                                    SignupSessionUpdate(@, uid, startedAt)]
                  /\ clock' = startedAt
                  /\ response' = Returned("employee_signup",
                               [id |-> onboarding_token, role |-> role,
                                repositories |-> scan.session_data.repositories,
                                customInstructions |-> scan.session_data.customInstructions])
           /\ UNCHANGED <<inflight, adminDocs, repos, outbox, issued>>

complete_onboarding(admin_uid, session_id, uid, name, email) ==
  IF session_id \notin DOMAIN sessions[admin_uid]
  THEN /\ response' = Raised("complete_onboarding",
                             HTTPException(404, "Onboarding session not found"))
       /\ UNCHANGED <<inflight, adminDocs, repos, sessions, users, claims, outbox, issued, clock>>
  ELSE /\ clock < MaxClock
       /\ LET role == sessions[admin_uid][session_id].role
              now == clock + 1
          IN  /\ claims' = [claims EXCEPT ![uid] = CustomClaims(role, None)]
              /\ users' = Put(users, uid,
                              UserDoc(name, email, role, None, admin_uid, session_id, NoTime))
              /\ sessions' = [sessions EXCEPT ![admin_uid][session_id] =
                                [@ EXCEPT !.status = "in_progress", !.startedAt = now]]
              /\ clock' = now
              /\ response' = Returned("complete_onboarding", "Onboarding completed")
       /\ UNCHANGED <<inflight, adminDocs, repos, outbox, issued>>

(* ------------------- requests as separate store operations -------------- *)
(* Nothing spans two calls to the store or to the identity service: no      *)
(* transaction, no lock.  Two requests served by different workers each     *)
(* proceed call by call.  A slot of inflight holds a request between its    *)
(* calls: what it received, what it has read, and where it is.              *)

Requests == 1..MaxRequests

\* a slot no request has taken
Idle == [op |-> None, pc |-> "idle", data |-> None, scan |-> None, status |-> 0]

\* the slot the next request takes: requests are numbered as they arrive
Arriving(r) ==
  /\ inflight[r].pc = "idle"
  /\ \A q \in 1..(r - 1) : inflight[q].pc # "idle"

At(r, op, pc) == inflight[r].op = op /\ inflight[r].pc = pc

\* the request moves to its next call
Goto(r, pc) == [inflight EXCEPT ![r].pc = pc]

\* the request has been answered
Answered(r, reply) == [inflight EXCEPT ![r].pc = "done", ![r].status = reply.status]

\* employee_signup up to its checks: the scan over the admins, the token,
\* email and status checks on what the scan has read
employee_signup_scan(r, uid, name, email, onboarding_token) ==
  LET scan == ScanForToken(onboarding_token)
      refusal == SignupRefusal(scan, email)
      taken == [op |-> "employee_signup", pc |-> "set_custom_user_claims",
                data |-> [uid |-> uid, name |-> name, email |-> email,
                          onboarding_token |-> onboarding_token],
                scan |-> scan, status |-> 0]
  IN  /\ Arriving(r)
      /\ IF refusal # NoException
         THEN /\ response' = Raised("employee_signup", refusal)
              /\ inflight' = [inflight EXCEPT ![r] =
                                [taken EXCEPT !.pc = "done", !.status = response'.status]]
         ELSE /\ inflight' = [inflight EXCEPT ![r] = taken]
              /\ UNCHANGED response
      /\ UNCHANGED <<adminDocs, repos, sessions, users, claims, outbox, issued, clock>>

\* auth.set_custom_user_claims(data.uid, {...}) of a signup that passed its checks
employee_signup_set_custom_user_claims(r) ==
  /\ At(r, "employee_signup", "set_custom_user_claims")
  /\ claims' = [claims EXCEPT ![inflight[r].data.uid] =
                  SignupClaims(inflight[r].scan.session_data.role)]
  /\ inflight' = Goto(r, "users_set")
  /\ UNCHANGED <<adminDocs, repos, sessions, users, outbox, issued, clock, response>>

\* db.collection("users").document(data.uid).set({...})
employee_signup_users_set(r) ==
  /\ At(r, "employee_signup", "users_set")
  /\ clock < MaxStepClock
  /\ LET data == inflight[r].data
         scan == inflight[r].scan
         signupDate == clock + 1
     IN  /\ users' = Put(users, data.uid,
                         SignupUserDoc(data.name, data.email, scan.session_data.role,
                                       scan.admin_uid, data.onboarding_token, signupDate))
         /\ clock' = signupDate
  /\ inflight' = Goto(r, "session_update")
  /\ UNCHANGED <<adminDocs, repos, sessions, claims, outbox, issued, response>>

\* session_ref.update({...}) and the answer, built from the session data
\* the scan has read; update raises when the document is no longer there
employee_signup_session_update(r) ==
  /\ At(r, "employee_signup", "session_update")
  /\ clock < MaxStepClock
  /\ LET data == inflight[r].data
         scan == inflight[r].scan
         startedAt == clock + 1
     IN  /\ clock' = startedAt
         /\ IF data.onboarding_token \notin DOMAIN sessions[scan.admin_uid]
            THEN /\ response' = Raised("employee_signup",
                                       HTTPException(404, "No document to update"))
                 /\ UNCHANGED sessions
            ELSE /\ sessions' =
                      [sessions EXCEPT ![scan.admin_uid][data.onboarding_token] =
                         SignupSessionUpdate(@, data.uid, startedAt)]
                 /\ response' = Returned("employee_signup",
                      [id |-> data.onboarding_token, role |-> scan.session_data.role,
                       repositories |-> scan.session_data.repositories,
                       customInstructions |-> scan.session_data.customInstructions])
  /\ inflight' = Answered(r, response')
  /\ UNCHANGED <<adminDocs, repos, users, claims, outbox, issued>>

\* create_onboarding_session up to its validation loop over the streamed
\* repository names
create_onboarding_session_validate(r, email, role, repositories, customInstructions, adminUid) ==
  LET taken == [op |-> "create_onboarding_session", pc |-> "set",
                data |-> [email |-> email, role |-> role, repositories |-> repositories,
                          customInstructions |-> customInstructions,
                          adminUid |-> adminUid],
                scan |-> None, status |-> 0]
  IN  /\ Arriving(r)
      /\ IF Rejected(repositories, adminUid) # {}
         THEN /\ response' = Raised("create_onboarding_session",
                               HTTPException(400, "Repository '"
                                  \o FirstRejected(repositories, adminUid) \o "' not found"))
              /\ inflight' = [inflight EXCEPT ![r] =
                                [taken EXCEPT !.pc = "done", !.status = response'.status]]
         ELSE /\ inflight' = [inflight EXCEPT ![r] = taken]
              /\ UNCHANGED response
      /\ UNCHANGED <<adminDocs, repos, sessions, users, claims, outbox, issued, clock>>

\* the session document is written, the mail is tried, the session is returned
SaveSession(r) ==
  /\ clock < MaxStepClock
  /\ \E session_id \in SessionIds \ issued, smtp \in SmtpOutcomes :
       LET data == inflight[r].data
           now == clock + 1
           session == SessionDoc(session_id, data.email, data.role, data.repositories,
                                 now, data.customInstructions, data.adminUid)
           mail == send_onboarding_email(smtp)
       IN  /\ sessions' = [sessions EXCEPT ![data.adminUid] = Put(@, session_id, session)]
           /\ issued' = issued \cup {session_id}
           /\ clock' = now
           /\ outbox' = IF Relayed(smtp)
                        THEN outbox \cup {Message(data.email, session_id, data.role)}
                        ELSE outbox
           /\ response' = IF mail.raised # NoException
                          THEN Raised("create_onboarding_session", mail.raised)
                          ELSE Returned("create_onboarding_session", session)
  /\ inflight' = Answered(r, response')
  /\ UNCHANGED <<adminDocs, repos, users, claims>>

\* create_onboarding_session_set validating the list again, against the
\* repositories stored when the session is written
create_onboarding_session_set_Revalidating(r) ==
  /\ At(r, "create_onboarding_session", "set")
  /\ IF Rejected(inflight[r].data.repositories, inflight[r].data.adminUid) # {}
     THEN /\ response' = Raised("create_onboarding_session",
                           HTTPException(400, "Repository '"
                              \o FirstRejected(inflight[r].data.repositories,
                                               inflight[r].data.adminUid)
                              \o "' not found"))
          /\ inflight' = Answered(r, response')
          /\ UNCHANGED <<adminDocs, repos, sessions, users, claims, outbox, issued, clock>>
     ELSE SaveSession(r)

\* ...document(session_id).set(session.dict()) of a request whose list
\* passed the validation, and what follows it
create_onboarding_session_set(r) ==
  /\ At(r, "create_onboarding_session", "set")
  /\ SaveSession(r)

(* ------------------------------- behaviour ----------------------------- *)

\* The store as this backend finds it.  No handler writes a document
\* admins/{uid} itself, only documents of its sub-collections, and a
\* collection streams only documents that exist: which admin documents
\* exist is fixed from outside.
Init ==
  /\ adminDocs \in SUBSET Admins
  /\ repos = [a \in Admins |-> <<>>]
  /\ sessions = [a \in Admins |-> <<>>]
  /\ users = <<>>
  /\ claims = [u \in Uids |-> CustomClaims(None, None)]
  /\ outbox = {}
  /\ issued = {}
  /\ clock = 0
  /\ response = [op |-> "start", status |-> 200, detail |-> None, body |-> None]
  /\ inflight = [r \in Requests |-> Idle]

AssignRole == \E u \in Uids, n \in UserNames, e \in Emails, r \in Roles : assign_role(u, n, e, r)

CompleteOnboarding ==
  \E a \in Admins, s \in SessionKeys, u \in Uids, n \in UserNames, e \in Emails :
    complete_onboarding(a, s, u, n, e)

GetRepositories == \E a \in Admins : get_repositories(a)

CreateRepository ==
  \E n \in RepoNames, u \in Urls, d \in Descriptions, l \in Languages, a \in Admins :
    create_repository(n, u, d, l, a)

DeleteRepository == \E a \in Admins, r \in RepoKeys : delete_repository(a, r)

GetOnboardingSessions == \E a \in Admins : get_onboarding_sessions(a)

CreateOnboardingSession ==
  \E e \in Emails, r \in Roles, l \in RefLists, c \in Instructions, a \in Admins :
    create_onboarding_session(e, r, l, c, a)

GetOnboardingSession == \E a \in Admins, s \in SessionKeys : get_onboarding_session(a, s)

GetEmployeeOnboardingSession == \E t \in SessionKeys : get_employee_onboarding_session(t)

EmployeeSignup ==
  \E u \in Uids, n \in UserNames, e \in Emails, t \in SessionKeys : employee_signup(u, n, e, t)

UpdateOnboardingProgress ==
  \E a \in Admins, s \in SessionKeys, p \in ProgressValues :
    update_onboarding_progress(a, s, p)

DeleteOnboardingSession == \E a \in Admins, s \in SessionKeys : delete_onboarding_session(a, s)

\* every request the backend serves
Next ==
  \/ AssignRole
  \/ CompleteOnboarding
  \/ GetRepositories
  \/ CreateRepository
  \/ DeleteRepository
  \/ GetOnboardingSessions
  \/ CreateOnboardingSession
  \/ GetOnboardingSession
  \/ GetEmployeeOnboardingSession
  \/ EmployeeSignup
  \/ UpdateOnboardingProgress
  \/ DeleteOnboardingSession

Spec == Init /\ [][Next]_vars

\* one session is followed: session ids are interchangeable, the
\* first of the pool stands for the one created
SingleSession == issued \cap SessionIds \subseteq {SessionIdSeq[1]}

\* the requests of the repository endpoints and of session creation, which
\* reads the repositories
NextRepositories ==
  \/ GetRepositories
  \/ CreateRepository
  \/ DeleteRepository
  \/ CreateOnboardingSession /\ SingleSession'

SpecRepositories == Init /\ [][NextRepositories]_vars

\* the requests that read or write onboarding sessions
NextSessions ==
  \/ CompleteOnboarding
  \/ GetOnboardingSessions
  \/ CreateOnboardingSession /\ SingleSession'
  \/ GetOnboardingSession
  \/ GetEmployeeOnboardingSession
  \/ EmployeeSignup
  \/ UpdateOnboardingProgress
  \/ DeleteOnboardingSession

SpecSessions == Init /\ [][NextSessions]_vars

EmployeeSignupScan ==
  \E r \in Requests, u \in Uids, n \in UserNames, e \in Emails, t \in SessionKeys :
    employee_signup_scan(r, u, n, e, t)

EmployeeSignupSetCustomUserClaims ==
  \E r \in Requests : employee_signup_set_custom_user_claims(r)

EmployeeSignupUsersSet == \E r \in Requests : employee_signup_users_set(r)

EmployeeSignupSessionUpdate == \E r \in Requests : employee_signup_session_update(r)

\* an invitation and the signups that answer it, call by call
NextConcurrentSignup ==
  \/ CreateOnboardingSession /\ SingleSession'
  \/ EmployeeSignupScan
  \/ EmployeeSignupSetCustomUserClaims
  \/ EmployeeSignupUsersSet
  \/ EmployeeSignupSessionUpdate

SpecConcurrentSignup == Init /\ [][NextConcurrentSignup]_vars

CreateOnboardingSessionValidate ==
  \E r \in Requests, e \in Emails, o \in Roles, l \in RefLists, c \in Instructions,
     a \in Admins :
    create_onboarding_session_validate(r, e, o, l, c, a)

CreateOnboardingSessionSet == \E r \in Requests : create_onboarding_session_set(r)

\* session creation call by call, among the requests that write repositories
NextValidateThenSet ==
  \/ CreateRepository
  \/ DeleteRepository
  \/ CreateOnboardingSessionValidate
  \/ CreateOnboardingSessionSet

SpecValidateThenSet == Init /\ [][NextValidateThenSet]_vars

\* the sessions of an admin and their listing
NextListing ==
  \/ CreateOnboardingSession
  \/ GetOnboardingSessions
  \/ DeleteOnboardingSession

SpecListing == Init /\ [][NextListing]_vars

\* the one invited address, employee and progress report of the two-admin runs
TenantEmails == {"alice@x.com"}

TenantUids == {"u1"}

TenantProgress == {45}

TenantCreateOnboardingSession ==
  \E e \in TenantEmails, r \in Roles, l \in RefLists, c \in Instructions, a \in Admins :
    create_onboarding_session(e, r, l, c, a)

TenantUpdateOnboardingProgress ==
  \E a \in Admins, s \in SessionIds, p \in TenantProgress :
    update_onboarding_progress(a, s, p)

TenantDeleteOnboardingSession ==
  \E a \in Admins, s \in SessionIds : delete_onboarding_session(a, s)

TenantCompleteOnboarding ==
  \E a \in Admins, s \in SessionIds, u \in TenantUids, n \in UserNames,
     e \in TenantEmails :
    complete_onboarding(a, s, u, n, e)

TenantEmployeeSignup ==
  \E u \in TenantUids, n \in UserNames, e \in TenantEmails, t \in SessionIds :
    employee_signup(u, n, e, t)

\* the requests that name an admin or reach an admin's session through its
\* token, with repositories under both admins and a session under either
NextTenants ==
  \/ GetRepositories
  \/ CreateRepository
  \/ DeleteRepository
  \/ GetOnboardingSessions
  \/ TenantCreateOnboardingSession /\ SingleSession'
  \/ TenantUpdateOnboardingProgress
  \/ TenantDeleteOnboardingSession
  \/ TenantCompleteOnboarding
  \/ TenantEmployeeSignup

SpecTenants == Init /\ [][NextTenants]_vars

(* ------------------------------ properties ----------------------------- *)

\* the session keyed by the token exists under some admin
Exists(token) == \E a \in Admins : token \in DOMAIN sessions[a]

\* the admin under which the session keyed by the token is stored
Owner(token) == CHOOSE a \in Admins : token \in DOMAIN sessions[a]

\* C1: on an existing session, a progress update to 100 or more leaves it
\* completed with a completion time, and a progress update to 0 changes
\* nothing of it but the progress.
C1_ProgressCompletesOrKeepsStatus ==
  [][\A a \in Admins, s \in SessionKeys, p \in ProgressValues :
       (/\ response'.op = "update_onboarding_progress"
        /\ s \in DOMAIN sessions[a]
        /\ update_onboarding_progress(a, s, p)) =>
         /\ s \in DOMAIN sessions'[a]
         /\ p >= 100 => /\ sessions'[a][s].status = "completed"
                        /\ sessions'[a][s].completedAt # NoTime
         /\ p = 0 => sessions'[a][s] = [sessions[a][s] EXCEPT !.progress = 0]]_vars

\* a completed session whose progress was then set to 0
C1_Witness ==
  /\ response.op = "update_onboarding_progress"
  /\ response.status = 200
  /\ response.body.progress = 0
  /\ response.body.status = "completed"
  /\ response.body.completedAt # NoTime

\* C2: on an existing session, a progress update to a value in 1..99 leaves
\* it in_progress with no completion time.
C2_PartialProgressHasNoCompletion ==
  [][\A a \in Admins, s \in SessionKeys, p \in ProgressValues :
       (/\ response'.op = "update_onboarding_progress"
        /\ s \in DOMAIN sessions[a]
        /\ p >= 1 /\ p <= 99
        /\ update_onboarding_progress(a, s, p)) =>
         /\ sessions'[a][s].status = "in_progress"
         /\ sessions'[a][s].completedAt = NoTime]_vars

\* C3: a signup on a session that is in_progress or completed fails,
\* whatever the email, and changes neither the sessions, the claims nor the
\* user mirror.
C3_ClaimedSessionRefused ==
  [][\A u \in Uids, n \in UserNames, e \in Emails, t \in SessionKeys :
       (/\ response'.op = "employee_signup"
        /\ Exists(t)
        /\ sessions[Owner(t)][t].status \in {"in_progress", "completed"}
        /\ employee_signup(u, n, e, t)) =>
         /\ response'.status # 200
         /\ UNCHANGED <<sessions, claims, users>>]_vars

\* a signup with the invitation's email refused for the session's status
C3_Witness ==
  /\ response.op = "employee_signup"
  /\ response.status # 200
  /\ response.detail = "Onboarding session is no longer valid"
  /\ \E a \in adminDocs : \E t \in DOMAIN sessions[a] :
       sessions[a][t].status \in {"in_progress", "completed"}

\* C4: a signup whose email is not exactly the session's email fails and
\* changes neither the session, the claims nor the user mirror.
C4_EmailMismatchRefused ==
  [][\A u \in Uids, n \in UserNames, e \in Emails, t \in SessionKeys :
       (/\ response'.op = "employee_signup"
        /\ Exists(t)
        /\ sessions[Owner(t)][t].email # e
        /\ employee_signup(u, n, e, t)) =>
         /\ response'.status # 200
         /\ UNCHANGED <<sessions, claims, users>>]_vars

\* a signup refused for its email on a session that is still pending
C4_Witness ==
  /\ response.op = "employee_signup"
  /\ response.status # 200
  /\ response.detail = "Email does not match invitation"
  /\ \E a \in adminDocs : \E t \in DOMAIN sessions[a] : sessions[a][t].status = "pending"

\* C5: a session creation whose list has an entry that is not the id of a
\* repository of the admin fails, adds no session and sends no mail.
C5_UnknownRepositoryIdRefused ==
  [][\A e \in Emails, r \in Roles, l \in RefLists, c \in Instructions, a \in Admins :
       (/\ response'.op = "create_onboarding_session"
        /\ \E i \in 1..Len(l) : l[i] \notin DOMAIN repos[a]
        /\ create_onboarding_session(e, r, l, c, a)) =>
         /\ response'.status # 200
         /\ UNCHANGED <<sessions, outbox>>]_vars

\* C6: a session creation whose list holds only ids of repositories of the
\* admin succeeds and adds, under that admin, exactly one session: pending,
\* progress 0, not completed, not claimed.
C6_OwnRepositoryIdsAccepted ==
  [][\A e \in Emails, r \in Roles, l \in RefLists, c \in Instructions, a \in Admins :
       (/\ response'.op = "create_onboarding_session"
        /\ \A i \in 1..Len(l) : l[i] \in DOMAIN repos[a]
        /\ create_onboarding_session(e, r, l, c, a)) =>
         /\ response'.status = 200
         /\ \E id \in SessionIds \ DOMAIN sessions[a] :
              /\ sessions' = [sessions EXCEPT ![a] = Put(@, id, sessions'[a][id])]
              /\ sessions'[a][id].status = "pending"
              /\ sessions'[a][id].progress = 0
              /\ sessions'[a][id].completedAt = NoTime
              /\ sessions'[a][id].employeeUid = None]_vars

\* C7: a signup that succeeds leaves the uid's claims (employee, invited
\* role), the user mirror (employee, invited role, inviting admin, token) and
\* the session under its admin (in_progress, claimed by the uid, started);
\* a progress update to 100 then leaves that session completed with a
\* completion time.
C7_SignupThenCompletion ==
  [][/\ \A u \in Uids, n \in UserNames, e \in Emails, t \in SessionKeys :
          (/\ response'.op = "employee_signup"
           /\ response'.status = 200
           /\ employee_signup(u, n, e, t)) =>
            /\ Exists(t)
            /\ sessions[Owner(t)][t].status = "pending"
            /\ sessions[Owner(t)][t].email = e
            /\ claims'[u] = [role |-> "employee", job_role |-> sessions[Owner(t)][t].role]
            /\ u \in DOMAIN users'
            /\ users'[u].role = "employee"
            /\ users'[u].job_role = sessions[Owner(t)][t].role
            /\ users'[u].invitedBy = Owner(t)
            /\ users'[u].onboardingSessionId = t
            /\ sessions'[Owner(t)][t].status = "in_progress"
            /\ sessions'[Owner(t)][t].employeeUid = u
            /\ sessions'[Owner(t)][t].startedAt # NoTime
     /\ \A a \in Admins, s \in SessionKeys :
          (/\ response'.op = "update_onboarding_progress"
           /\ s \in DOMAIN sessions[a]
           /\ sessions[a][s].employeeUid # None
           /\ update_onboarding_progress(a, s, 100)) =>
            /\ sessions'[a][s].status = "completed"
            /\ sessions'[a][s].completedAt # NoTime
            /\ sessions'[a][s].employeeUid = sessions[a][s].employeeUid]_vars

\* a session claimed by signup and then completed by a progress update
C7_Witness ==
  /\ response.op = "update_onboarding_progress"
  /\ response.status = 200
  /\ response.body.progress = 100
  /\ response.body.status = "completed"
  /\ response.body.employeeUid \in Uids
  /\ claims[response.body.employeeUid] = [role |-> "employee", job_role |-> response.body.role]
  /\ users[response.body.employeeUid].onboardingSessionId = response.body.id

\* C8: with a token that keys no session under any admin, the token lookup
\* and the signup answer 404 and change neither the store nor the claims.
C8_UnknownTokenNotFound ==
  [][\A t \in SessionKeys :
       (/\ response'.op \in {"get_employee_onboarding_session", "employee_signup"}
        /\ ~Exists(t)
        /\ \/ get_employee_onboarding_session(t)
           \/ \E u \in Uids, n \in UserNames, e \in Emails : employee_signup(u, n, e, t)) =>
         /\ response'.status = 404
         /\ UNCHANGED <<adminDocs, repos, sessions, users, claims>>]_vars

\* C9: a created repository is listed once for its admin with the fields
\* given; a deleted one is no longer listed; deleting again an id that was
\* created and is no longer the admin's answers 404 and leaves the
\* repositories as they were.
C9_RepositoryRoundTrip ==
  [][/\ \A n \in RepoNames, u \in Urls, d \in Descriptions, l \in Languages, a \in Admins :
          (response'.op = "create_repository" /\ create_repository(n, u, d, l, a)) =>
            LET id == response'.body.id
                listed == RepositoryListing(a)'
                at == {i \in 1..Len(listed) : listed[i].id = id}
            IN  /\ Cardinality(at) = 1
                /\ \A i \in at : /\ listed[i].name = n
                                 /\ listed[i].url = u
                                 /\ listed[i].description = d
                                 /\ listed[i].language = l
                                 /\ listed[i].adminUid = a
     /\ \A a \in Admins, r \in RepoKeys :
          (response'.op = "delete_repository" /\ delete_repository(a, r)) =>
            /\ r \in DOMAIN repos[a] =>
                 /\ response'.status = 200
                 /\ \A i \in 1..Len(RepositoryListing(a)') : RepositoryListing(a)'[i].id # r
            /\ (r \in issued /\ \A b \in Admins : r \notin DOMAIN repos[b]) =>
                 /\ response'.status = 404
                 /\ UNCHANGED repos]_vars

\* C10: a session creation whose list passes the validation persists the
\* session it returns and answers 200, whatever the mail relay does.
C10_CreationIgnoresMailFailure ==
  [][\A e \in Emails, r \in Roles, l \in RefLists, c \in Instructions, a \in Admins :
       (/\ response'.op = "create_onboarding_session"
        /\ Rejected(l, a) = {}
        /\ create_onboarding_session(e, r, l, c, a)) =>
         /\ response'.status = 200
         /\ response'.body.id \in SessionIds \ DOMAIN sessions[a]
         /\ sessions' = [sessions EXCEPT ![a] = Put(@, response'.body.id, response'.body)]
         /\ response'.body.status = "pending"
         /\ response'.body.email = e]_vars

\* a session created and returned although its invitation was not relayed
C10_Witness ==
  /\ response.op = "create_onboarding_session"
  /\ response.status = 200
  /\ response.body.id \in DOMAIN sessions[response.body.adminUid]
  /\ sessions[response.body.adminUid][response.body.id] = response.body
  /\ \A m \in outbox : m.token # response.body.id

\* details of the conditions the handlers detect as missing documents
NotFoundDetails ==
  {"Repository not found", "Onboarding session not found", "Invalid onboarding token"}

\* details of the conditions the handlers detect as invalid requests
ValidationDetails ==
  {"Email does not match invitation", "Onboarding session is no longer valid"}
    \cup {"Repository '" \o r \o "' not found" : r \in RepoRefs}

\* C11: a response for a missing repository, session or token has status
\* 404, a response for an email mismatch, a session that is not pending or
\* an unknown repository reference has status 400, and neither has 500.
C11_DetectedConditionsKeepStatus ==
  /\ response.detail \in NotFoundDetails => response.status = 404
  /\ response.detail \in ValidationDetails => response.status = 400

\* position of a status in pending -> in_progress -> completed
Rank(status) ==
  IF status = "pending" THEN 1 ELSE IF status = "in_progress" THEN 2 ELSE 3

\* C13: the status of a stored session never moves back along
\* pending -> in_progress -> completed.
C13_StatusOnlyMovesForward ==
  [][\A a \in Admins : \A s \in DOMAIN sessions[a] \cap DOMAIN sessions'[a] :
       Rank(sessions'[a][s].status) >= Rank(sessions[a][s].status)]_vars

\* C15: employee_signup and complete_onboarding on a session that is
\* in_progress or completed change neither the sessions, the claims nor the
\* user mirror.
C15_OnlyPendingSessionsAreClaimed ==
  [][/\ \A u \in Uids, n \in UserNames, e \in Emails, t \in SessionKeys :
          (/\ response'.op = "employee_signup"
           /\ Exists(t)
           /\ sessions[Owner(t)][t].status # "pending"
           /\ employee_signup(u, n, e, t)) =>
            UNCHANGED <<sessions, claims, users>>
     /\ \A a \in Admins, t \in SessionKeys, u \in Uids, n \in UserNames, e \in Emails :
          (/\ response'.op = "complete_onboarding"
           /\ t \in DOMAIN sessions[a]
           /\ sessions[a][t].status # "pending"
           /\ complete_onboarding(a, t, u, n, e)) =>
            UNCHANGED <<sessions, claims, users>>]_vars

\* the session keyed by the token was created and has been deleted
Deleted(token) == token \in issued /\ ~Exists(token)

\* the step is a request addressed to the session keyed by the token
AddressedTo(token) ==
  \/ /\ response'.op = "get_onboarding_session"
     /\ \E a \in Admins : get_onboarding_session(a, token)
  \/ /\ response'.op = "update_onboarding_progress"
     /\ \E a \in Admins, p \in ProgressValues : update_onboarding_progress(a, token, p)
  \/ /\ response'.op = "delete_onboarding_session"
     /\ \E a \in Admins : delete_onboarding_session(a, token)
  \/ /\ response'.op = "get_employee_onboarding_session"
     /\ get_employee_onboarding_session(token)
  \/ /\ response'.op = "employee_signup"
     /\ \E u \in Uids, n \in UserNames, e \in Emails : employee_signup(u, n, e, token)

\* C18: once a session has been deleted it is never stored again, no
\* listing shows it, and every request addressed to it answers 404.
C18_DeletedSessionStaysDeleted ==
  [][\A t \in SessionIds :
       Deleted(t) =>
         /\ Deleted(t)'
         /\ \A a \in Admins : \A i \in 1..Len(SessionListing(a)') :
              SessionListing(a)'[i].id # t
         /\ AddressedTo(t) => response'.status = 404]_vars

\* C19: the progress of every stored session is in 0..100.
C19_ProgressWithinRange ==
  \A a \in Admins : \A s \in DOMAIN sessions[a] :
    sessions[a][s].progress >= 0 /\ sessions[a][s].progress <= 100

\* C17: the token lookup returns the session's email, role, repositories,
\* instructions and admin exactly when a session keyed by the token is
\* stored under some admin and is pending, whether or not the admin's user
\* record can be read, and it changes neither the store nor the claims.
C17_TokenLookupFindsPendingSession ==
  [][\A t \in SessionKeys :
       (response'.op = "get_employee_onboarding_session"
          /\ get_employee_onboarding_session(t)) =>
         /\ UNCHANGED <<adminDocs, repos, sessions, users, claims>>
         /\ IF Exists(t) /\ sessions[Owner(t)][t].status = "pending"
            THEN /\ response'.status = 200
                 /\ response'.body.id = t
                 /\ response'.body.email = sessions[Owner(t)][t].email
                 /\ response'.body.role = sessions[Owner(t)][t].role
                 /\ response'.body.repositories = sessions[Owner(t)][t].repositories
                 /\ response'.body.customInstructions
                      = sessions[Owner(t)][t].customInstructions
                 /\ response'.body.adminUid = Owner(t)
            ELSE response'.status # 200]_vars

\* C12: the listing of an admin's sessions holds every session stored under
\* the admin exactly once, in ascending order of creation time.
C12_ListingInCreationOrder ==
  [][\A a \in Admins :
       (response'.op = "get_onboarding_sessions" /\ get_onboarding_sessions(a)) =>
         LET listed == response'.body
         IN  /\ {listed[i].id : i \in 1..Len(listed)} = DOMAIN sessions[a]
             /\ Len(listed) = Cardinality(DOMAIN sessions[a])
             /\ \A i \in 1..Len(listed) : \A j \in 1..Len(listed) :
                  i < j => listed[i].createdAt.epoch <= listed[j].createdAt.epoch]_vars

\* the signup in slot r has been answered with success
SignedUp(r) == At(r, "employee_signup", "done") /\ inflight[r].status = 200

\* C14: no two signups with different uids succeed on the same token,
\* however their calls interleave.
C14_AtMostOneSignupPerToken ==
  \A r \in Requests : \A q \in Requests :
    (/\ SignedUp(r)
     /\ SignedUp(q)
     /\ inflight[r].data.onboarding_token = inflight[q].data.onboarding_token)
      => inflight[r].data.uid = inflight[q].data.uid

\* C16: the write of a session whose list passed the validation stores that
\* list under the request's admin and answers with success, whatever
\* repositories the admin has when the write happens.
C16_SetDoesNotValidateAgain ==
  [][\A r \in Requests :
       (At(r, "create_onboarding_session", "set") /\ create_onboarding_session_set(r)) =>
         LET data == inflight[r].data
         IN  /\ response'.status = 200
             /\ response'.body.id \in DOMAIN sessions'[data.adminUid]
             /\ response'.body.id \notin DOMAIN sessions[data.adminUid]
             /\ sessions'[data.adminUid][response'.body.id].repositories
                  = data.repositories]_vars

\* the last step wrote a session that names a repository its admin does
\* not have
C16_Witness ==
  /\ response.op = "create_onboarding_session"
  /\ response.status = 200
  /\ response.body.id \in DOMAIN sessions[response.body.adminUid]
  /\ \E i \in 1..Len(response.body.repositories) :
       response.body.repositories[i] \notin admin_repo_names(response.body.adminUid)
  /\ \E r \in Requests : At(r, "create_onboarding_session", "done")
                           /\ inflight[r].status = 200

\* the step leaves the repositories and the sessions of every admin other
\* than a as they are
Untouched(a) ==
  \A b \in Admins \ {a} : repos'[b] = repos[b] /\ sessions'[b] = sessions[b]

\* C20: a request that names an admin leaves the repositories and sessions
\* of the other admins unchanged, a listing holds only documents stored
\* under the admin it names, and a signup changes no session but the one
\* keyed by its token and no repository.
C20_TenantIsolation ==
  [][/\ \A a \in Admins :
          (\/ /\ response'.op = "create_repository"
              /\ \E n \in RepoNames, u \in Urls, d \in Descriptions, l \in Languages :
                   create_repository(n, u, d, l, a)
           \/ /\ response'.op = "delete_repository"
              /\ \E r \in RepoKeys : delete_repository(a, r)
           \/ /\ response'.op = "create_onboarding_session"
              /\ \E e \in Emails, o \in Roles, l \in RefLists, c \in Instructions :
                   create_onboarding_session(e, o, l, c, a)
           \/ /\ response'.op = "update_onboarding_progress"
              /\ \E t \in SessionKeys, p \in ProgressValues :
                   update_onboarding_progress(a, t, p)
           \/ /\ response'.op = "delete_onboarding_session"
              /\ \E t \in SessionKeys : delete_onboarding_session(a, t)
           \/ /\ response'.op = "complete_onboarding"
              /\ \E t \in SessionKeys, u \in Uids, n \in UserNames, e \in Emails :
                   complete_onboarding(a, t, u, n, e))
            => Untouched(a)
     /\ \A a \in Admins :
          (response'.op = "get_repositories" /\ get_repositories(a)) =>
            \A i \in 1..Len(response'.body) :
              /\ response'.body[i].id \in DOMAIN repos[a]
              /\ response'.body[i].adminUid = a
     /\ \A a \in Admins :
          (response'.op = "get_onboarding_sessions" /\ get_onboarding_sessions(a)) =>
            \A i \in 1..Len(response'.body) :
              /\ response'.body[i].id \in DOMAIN sessions[a]
              /\ response'.body[i].adminUid = a
     /\ \A t \in SessionKeys :
          (/\ response'.op = "employee_signup"
           /\ \E u \in Uids, n \in UserNames, e \in Emails : employee_signup(u, n, e, t))
            => /\ repos' = repos
               /\ \A b \in Admins :
                    /\ DOMAIN sessions'[b] = DOMAIN sessions[b]
                    /\ \A s \in DOMAIN sessions[b] \ {t} : sessions'[b][s] = sessions[b][s]
                    /\ t \notin DOMAIN sessions[b] => sessions'[b] = sessions[b]]_vars

\* an admin's listing of sessions came back empty while a session is stored
\* under the other admin, who also has a repository
C20_Witness ==
  /\ response.op = "get_onboarding_sessions"
  /\ response.status = 200
  /\ response.body = <<>>
  /\ \E a \in Admins : DOMAIN sessions[a] # {} /\ DOMAIN repos[a] # {}

\* C21: every stored session has status pending, in_progress or completed;
\* a completed session has a completion time; a session with an employee
\* uid is not pending; a session with a completion time is completed.
C21_SessionInvariant ==
  \A a \in Admins : \A s \in DOMAIN sessions[a] :
    LET doc == sessions[a][s]
    IN  /\ doc.status \in {"pending", "in_progress", "completed"}
        /\ doc.status = "completed" => doc.completedAt # NoTime
        /\ doc.employeeUid # None => doc.status # "pending"
        /\ doc.completedAt # NoTime => doc.status = "completed"

====
